---- MODULE Spec2Model ----
(***************************************************************************)
(* The Snackbar component of src/src/components/SnackBar.js as a state     *)
(* machine: the host-owned props, the two Animated values, the parallel    *)
(* animation in flight, the _hideTimeout handle and the timers the         *)
(* platform holds for it.  Time advances in steps of one animation         *)
(* duration (250 ms); a due animation or timer runs before time moves on.  *)
(* The TextInput and the HelperText follow further down, each under a      *)
(* specification of its own in which the other components stand still.     *)
(***************************************************************************)
EXTENDS Integers, FiniteSets, Sequences, TLC

\* ---------------------------------------------------------------- constants
SNACKBAR_ANIMATION_DURATION == 250
DURATION_SHORT == 2000
DURATION_LONG == 3500

\* Resting values of this.state.opacity and this.state.yPosition.
OPACITY_HIDDEN == 0
OPACITY_VISIBLE == 1
Y_HIDDEN == 48
Y_VISIBLE == 0

\* ------------------------------------------------------------------- bounds
\* Most timers the platform holds at once for one Snackbar.
MaxTimers == 2

\* The explicit numeric duration, in ms, that hosts pass in this model.
NUMERIC_DURATION == 1000

\* The clock advances by one animation duration per Tick.
TickMs == SNACKBAR_ANIMATION_DURATION

\* ------------------------------------------------------------------- props
\* duration is 'indefinite' | 'short' | 'long' or a number; the default prop
\* is the number DURATION_LONG.
defaultProps == [kind |-> "number", ms |-> DURATION_LONG]

Durations ==
  { [kind |-> "indefinite", ms |-> 0],
    [kind |-> "short", ms |-> 0],
    [kind |-> "long", ms |-> 0],
    defaultProps,
    [kind |-> "number", ms |-> NUMERIC_DURATION] }

VARIABLES
  mounted,      \* "constructed" | "mounted" | "unmounted"
  visible,      \* props.visible
  duration,     \* props.duration
  action,       \* TRUE iff props.action is given
  onDismiss,    \* props.onDismiss: which function the host passes (1 or 2)
  opacity,      \* state.opacity   : [value, toValue]
  yPosition,    \* state.yPosition : [value, toValue]
  animation,    \* the Animated.parallel in flight: [kind, elapsed]
  hideTimeout,  \* this._hideTimeout: "undefined" until assigned, then "handle"
  timers,       \* pending setTimeout entries, oldest first: [callback, left,
                \* current, fresh]; callback the function to call, left in
                \* ms, current iff _hideTimeout is its handle, fresh iff the
                \* last step armed it
  called,       \* the host callback the last step invoked, from where, and
                \* for onDismiss which function it was
  dismissed,    \* onDismiss has been invoked since the current cycle's show began
  everFinite    \* the duration prop has at some point not been 'indefinite'

\* The TextInput of src/unnamed/part_002.
VARIABLES
  inputMounted,      \* FALSE once componentWillUnmount has run
  label,             \* TRUE iff props.label is given
  hasError,          \* props.hasError
  placeholderProp,   \* props.placeholder
  valueProp,         \* props.value
  isFocused,         \* the native input has the focus
  focused,           \* state.focused    : [value, toValue]
  errorShown,        \* state.errorShown : [value, toValue]
  placeholder,       \* state.placeholder
  value,             \* state.value
  focusedTiming,     \* the Animated.timing in flight on state.focused:
                     \* [kind, elapsed]
  errorTiming,       \* the Animated.timing in flight on state.errorShown
  _timer,            \* this._timer: "undefined" until assigned, then "handle"
  inputTimers,       \* pending setTimeout entries of the TextInput, oldest
                     \* first: [left, current]
  inputEvent         \* what the last step was: "none", "edit" (the user
                     \* changed the text), "timer" (a placeholder timer ran
                     \* its setState)

\* The HelperText of src/src/components/HelperText.js (prop visible) and of
\* src/unnamed/part_001 (prop hasError).
VARIABLES
  variant,           \* which of the two files: "visible" | "hasError"
  helperProp,        \* props.visible, or props.hasError in the older file
  shown,             \* state.shown / state.errorShown : [value, toValue]
  shownTiming        \* the Animated.timing in flight on it: [kind, elapsed]

snackbarVars ==
  << mounted, visible, duration, action, onDismiss, opacity, yPosition,
     animation, hideTimeout, timers, called, dismissed, everFinite >>

textInputVars ==
  << inputMounted, label, hasError, placeholderProp, valueProp, isFocused,
     focused, errorShown, placeholder, value, focusedTiming, errorTiming,
     _timer, inputTimers, inputEvent >>

helperTextVars == << variant, helperProp, shown, shownTiming >>

vars == << snackbarVars, textInputVars, helperTextVars >>

NoCall == [cb |-> "none", by |-> "none", fn |-> 0]
NoAnimation == [kind |-> "none", elapsed |-> 0]

\* The pending timers as a new step finds them: none armed by it yet.
Settled(ts) == [i \in 1 .. Len(ts) |-> [ts[i] EXCEPT !.fresh = FALSE]]

\* The instance fields the show and hide routines read and write, and
\* this.props.onDismiss, which they only read.
Instance ==
  [ opacity |-> opacity, yPosition |-> yPosition, animation |-> animation,
    hideTimeout |-> hideTimeout, timers |-> Settled(timers),
    onDismiss |-> onDismiss ]

Commit(c) ==
  /\ opacity' = c.opacity
  /\ yPosition' = c.yPosition
  /\ animation' = c.animation
  /\ hideTimeout' = c.hideTimeout
  /\ timers' = c.timers

\* ------------------------------------------------------------------ timers
\* TimeoutDelay with the two delays exchanged.
TimeoutDelaySwapped(d) ==
  IF d.kind = "short" THEN DURATION_LONG ELSE DURATION_SHORT

\* The delay argument of setTimeout in the show callback.
TimeoutDelay(d) ==
  IF d.kind = "short" THEN DURATION_SHORT ELSE DURATION_LONG

\* this._hideTimeout = setTimeout(fn, delay): the platform queues a timer
\* for the function it was given and the field now holds its handle instead
\* of any earlier one.
setTimeout(c, fn, delay) ==
  LET old == [i \in 1 .. Len(c.timers) |-> [c.timers[i] EXCEPT !.current = FALSE]]
  IN [c EXCEPT !.timers = Append(old, [callback |-> fn, left |-> delay,
                                       current |-> TRUE, fresh |-> TRUE]),
               !.hideTimeout = "handle"]

NotCurrent(t) == ~t.current

\* clearTimeout(this._hideTimeout): the timer whose handle the field holds is
\* dropped if it is still pending; a handle of a timer that has fired or was
\* cleared does nothing.
clearTimeout(c) ==
  [c EXCEPT !.timers = SelectSeq(@, NotCurrent)]

\* A completion callback that would arm nothing.
ShowCallbackNever(c, d) == c

\* ShowCallback without the test for 'indefinite'.
ShowCallbackAlways(c, d) == setTimeout(c, c.onDismiss, TimeoutDelay(d))

\* The callback _show passes to Animated.parallel(...).start: it runs when the
\* animation ends, finished or not, and does not look at the result.
ShowCallback(c, d) ==
  IF d.kind # "indefinite"
  THEN setTimeout(c, c.onDismiss, TimeoutDelay(d))
  ELSE c

\* --------------------------------------------------------------- animation
\* StopAnimation with the callback run once for each of the two stopped
\* timing animations instead of once for the parallel.
StopAnimationPerChild(c, d) ==
  LET stopped == [c EXCEPT !.animation = NoAnimation]
  IN IF c.animation.kind = "show"
     THEN ShowCallback(ShowCallback(stopped, d), d)
     ELSE stopped

\* Starting a timing animation on a value stops the one running on it; a
\* stopped parallel ends once, with finished = false, and runs its callback.
StopAnimation(c, d) ==
  LET stopped == [c EXCEPT !.animation = NoAnimation]
  IN IF c.animation.kind = "show" THEN ShowCallback(stopped, d) ELSE stopped

\* A start that would retarget the opacity alone.
StartParallelOpacityOnly(c, d, kind, toOpacity, toY) ==
  LET s == StopAnimation(c, d)
  IN [s EXCEPT !.opacity.toValue = toOpacity,
               !.animation = [kind |-> kind, elapsed |-> 0]]

StartParallel(c, d, kind, toOpacity, toY) ==
  LET s == StopAnimation(c, d)
  IN [s EXCEPT !.opacity.toValue = toOpacity,
               !.yPosition.toValue = toY,
               !.animation = [kind |-> kind, elapsed |-> 0]]

_show(c, d) == StartParallel(c, d, "show", OPACITY_VISIBLE, Y_VISIBLE)

_hide(c, d) ==
  LET cleared == IF c.hideTimeout # "undefined" THEN clearTimeout(c) ELSE c
  IN StartParallel(cleared, d, "hide", OPACITY_HIDDEN, Y_HIDDEN)

\* An update that would run the hide but never the show.
componentDidUpdateHideOnly(c, d, prevVisible, v) ==
  IF prevVisible # v /\ ~v THEN _hide(c, d) ELSE c

\* An update that would run the show or the hide on every render.
componentDidUpdateEveryRender(c, d, prevVisible, v) ==
  IF v THEN _show(c, d) ELSE _hide(c, d)

\* componentDidUpdate(prevProps) after props.visible became v.
componentDidUpdate(c, d, prevVisible, v) ==
  IF prevVisible # v THEN (IF v THEN _show(c, d) ELSE _hide(c, d)) ELSE c

\* --------------------------------------------------------------- lifecycle
\* The lifecycle state of spec.md section 4.1, read off the animation.
Phase ==
  IF opacity.toValue = OPACITY_VISIBLE
  THEN (IF animation.kind = "none" THEN "Shown" ELSE "Showing")
  ELSE (IF animation.kind = "none" THEN "Hidden" ELSE "Hiding")

InCycle == Phase # "Hidden"

AnimationDue == animation.kind # "none" /\ animation.elapsed >= SNACKBAR_ANIMATION_DURATION
TimerDue(t) == t.left = 0

TypeOK ==
  /\ mounted \in {"constructed", "mounted", "unmounted"}
  /\ visible \in BOOLEAN
  /\ duration \in Durations
  /\ action \in BOOLEAN
  /\ onDismiss \in {1, 2}
  /\ opacity.value \in {OPACITY_HIDDEN, OPACITY_VISIBLE}
  /\ yPosition.value \in {Y_HIDDEN, Y_VISIBLE}
  /\ animation.kind \in {"none", "show", "hide"}
  /\ hideTimeout \in {"undefined", "handle"}
  /\ Len(timers) <= MaxTimers
  /\ \A i \in 1 .. Len(timers) :
       /\ timers[i].left \in 0 .. DURATION_LONG
       /\ timers[i].callback \in {1, 2}
  /\ called.fn \in {0, 1, 2}
  /\ dismissed \in BOOLEAN
  /\ everFinite \in BOOLEAN

\* ----------------------------------------------- the other two components
\* A TextInput as constructed with the default props and nothing else given,
\* which is how it stands while another component is under study.
TextInputAside ==
  /\ inputMounted = TRUE
  /\ label = FALSE
  /\ hasError = FALSE
  /\ placeholderProp = ""
  /\ valueProp = ""
  /\ isFocused = FALSE
  /\ focused = [value |-> 0, toValue |-> 0]
  /\ errorShown = [value |-> 0, toValue |-> 0]
  /\ placeholder = ""
  /\ value = ""
  /\ focusedTiming = NoAnimation
  /\ errorTiming = NoAnimation
  /\ _timer = "undefined"
  /\ inputTimers = << >>
  /\ inputEvent = "none"

\* A HelperText of the current file as constructed with the default props.
HelperTextAside ==
  /\ variant = "visible"
  /\ helperProp = TRUE
  /\ shown = [value |-> 1, toValue |-> 1]
  /\ shownTiming = NoAnimation

\* A Snackbar as constructed with the default props and not mounted.
SnackbarAside ==
  /\ mounted = "constructed"
  /\ visible = FALSE
  /\ duration = defaultProps
  /\ action = FALSE
  /\ onDismiss = 1
  /\ opacity = [value |-> OPACITY_HIDDEN, toValue |-> OPACITY_HIDDEN]
  /\ yPosition = [value |-> Y_HIDDEN, toValue |-> Y_HIDDEN]
  /\ animation = NoAnimation
  /\ hideTimeout = "undefined"
  /\ timers = << >>
  /\ called = NoCall
  /\ dismissed = FALSE
  /\ everFinite = TRUE

\* -------------------------------------------------------------------- Init
Init ==
  /\ mounted = "constructed"
  /\ visible \in BOOLEAN
  /\ duration \in Durations
  /\ action \in BOOLEAN
  /\ onDismiss = 1
  /\ opacity = [value |-> OPACITY_HIDDEN, toValue |-> OPACITY_HIDDEN]
  /\ yPosition = [value |-> Y_HIDDEN, toValue |-> Y_HIDDEN]
  /\ animation = NoAnimation
  /\ hideTimeout = "undefined"
  /\ timers = << >>
  /\ called = NoCall
  /\ dismissed = FALSE
  /\ everFinite = (duration.kind # "indefinite")
  /\ TextInputAside
  /\ HelperTextAside

\* ----------------------------------------------------------------- actions
\* A mount that would run the show whatever visible is.
componentDidMountAlways ==
  /\ mounted = "constructed"
  /\ mounted' = "mounted"
  /\ Commit(_show(Instance, duration))
  /\ called' = NoCall
  /\ dismissed' = FALSE
  /\ UNCHANGED << visible, duration, action, onDismiss, everFinite >>
  /\ UNCHANGED << textInputVars, helperTextVars >>

\* componentDidMount: if (this.props.visible) this._show().
componentDidMount ==
  /\ mounted = "constructed"
  /\ mounted' = "mounted"
  /\ Commit(IF visible THEN _show(Instance, duration) ELSE Instance)
  /\ called' = NoCall
  /\ dismissed' = FALSE
  /\ UNCHANGED << visible, duration, action, onDismiss, everFinite >>
  /\ UNCHANGED << textInputVars, helperTextVars >>

\* The host re-renders with a different visible prop.
SetVisible ==
  /\ mounted = "mounted"
  /\ visible' = ~visible
  /\ Commit(componentDidUpdate(Instance, duration, visible, visible'))
  /\ Len(timers') <= MaxTimers
  /\ called' = NoCall
  /\ dismissed' = (~visible' /\ dismissed)
  /\ UNCHANGED << mounted, duration, action, onDismiss, everFinite >>
  /\ UNCHANGED << textInputVars, helperTextVars >>

\* The host re-renders with another duration or action and the same visible.
SetProps ==
  /\ mounted = "mounted"
  /\ \E d \in Durations, a \in BOOLEAN :
       /\ << d, a >> # << duration, action >>
       /\ duration' = d
       /\ action' = a
  /\ Commit(componentDidUpdate(Instance, duration', visible, visible))
  /\ called' = NoCall
  /\ everFinite' = (everFinite \/ duration'.kind # "indefinite")
  /\ UNCHANGED << mounted, visible, onDismiss, dismissed >>
  /\ UNCHANGED << textInputVars, helperTextVars >>

\* The host re-renders with another function as onDismiss and the same
\* visible.
SetOnDismiss ==
  /\ mounted = "mounted"
  /\ onDismiss' = 3 - onDismiss
  /\ Commit(componentDidUpdate(Instance, duration, visible, visible))
  /\ called' = NoCall
  /\ UNCHANGED << mounted, visible, duration, action, dismissed, everFinite >>
  /\ UNCHANGED << textInputVars, helperTextVars >>

\* An end of the animation that would leave both values where they were.
AnimationEndInPlace ==
  /\ AnimationDue
  /\ LET c == [Instance EXCEPT !.animation = NoAnimation]
     IN Commit(IF animation.kind = "show" THEN ShowCallback(c, duration) ELSE c)
  /\ Len(timers') <= MaxTimers
  /\ called' = NoCall
  /\ dismissed' = (dismissed /\ animation.kind # "hide")
  /\ UNCHANGED << mounted, visible, duration, action, onDismiss, everFinite >>
  /\ UNCHANGED << textInputVars, helperTextVars >>

\* The parallel animation runs to its end: both values reach their targets
\* and, for a show, the callback runs with finished = true.
AnimationEnd ==
  /\ AnimationDue
  /\ LET c == [Instance EXCEPT !.opacity.value = opacity.toValue,
                               !.yPosition.value = yPosition.toValue,
                               !.animation = NoAnimation]
     IN Commit(IF animation.kind = "show" THEN ShowCallback(c, duration) ELSE c)
  /\ Len(timers') <= MaxTimers
  /\ called' = NoCall
  /\ dismissed' = (dismissed /\ animation.kind # "hide")
  /\ UNCHANGED << mounted, visible, duration, action, onDismiss, everFinite >>
  /\ UNCHANGED << textInputVars, helperTextVars >>

\* TickMs pass; nothing that is due is skipped.
Tick ==
  /\ mounted # "constructed"
  /\ ~AnimationDue
  /\ \A i \in 1 .. Len(timers) : ~TimerDue(timers[i])
  /\ animation.kind # "none" \/ timers # << >>
  /\ animation' = IF animation.kind = "none" THEN animation
                  ELSE [animation EXCEPT !.elapsed = @ + TickMs]
  /\ timers' = [i \in 1 .. Len(timers) |->
                  [timers[i] EXCEPT !.left = @ - TickMs, !.fresh = FALSE]]
  /\ called' = NoCall
  /\ UNCHANGED << mounted, visible, duration, action, onDismiss, opacity,
                  yPosition, hideTimeout, dismissed, everFinite >>
  /\ UNCHANGED << textInputVars, helperTextVars >>

\* What the host does inside onDismiss or action.onPress: it sets visible to
\* false (hostHides) or leaves the props alone.
HostResponds(c, hostHides) ==
  /\ visible' = IF hostHides /\ mounted = "mounted" THEN FALSE ELSE visible
  /\ Commit(IF mounted = "mounted"
            THEN componentDidUpdate(c, duration, visible, visible')
            ELSE c)

\* The sequence s without its i-th element.
Without(s, i) == SubSeq(s, 1, i - 1) \o SubSeq(s, i + 1, Len(s))

\* A timer's delay has elapsed: the platform calls the function the timer
\* was given, the props.onDismiss of the moment setTimeout ran.
TimerFires(hostHides) ==
  /\ \E i \in 1 .. Len(timers) :
       /\ TimerDue(timers[i])
       /\ HostResponds([Instance EXCEPT !.timers = Without(@, i)], hostHides)
       /\ called' = [cb |-> "onDismiss", by |-> "timer",
                     fn |-> timers[i].callback]
  /\ Len(timers') <= MaxTimers
  /\ dismissed' = InCycle
  /\ UNCHANGED << mounted, duration, action, onDismiss, everFinite >>
  /\ UNCHANGED << textInputVars, helperTextVars >>

TimerFire == \E hostHides \in BOOLEAN : TimerFires(hostHides)

\* A body tap that would also run this._hide(), as the action tap does.
BodyPressHides ==
  /\ mounted = "mounted"
  /\ \E hostHides \in BOOLEAN :
       HostResponds(_hide(Instance, duration), hostHides)
  /\ Len(timers') <= MaxTimers
  /\ called' = [cb |-> "onDismiss", by |-> "press", fn |-> onDismiss]
  /\ dismissed' = InCycle
  /\ UNCHANGED << mounted, duration, action, onDismiss, everFinite >>
  /\ UNCHANGED << textInputVars, helperTextVars >>

\* A tap on the body: the outer TouchableWithoutFeedback calls onDismiss.
BodyPress ==
  /\ mounted = "mounted"
  /\ \E hostHides \in BOOLEAN : HostResponds(Instance, hostHides)
  /\ Len(timers') <= MaxTimers
  /\ called' = [cb |-> "onDismiss", by |-> "press", fn |-> onDismiss]
  /\ dismissed' = InCycle
  /\ UNCHANGED << mounted, duration, action, onDismiss, everFinite >>
  /\ UNCHANGED << textInputVars, helperTextVars >>

\* A tap on the action control: action.onPress(); this._hide(); then the
\* re-render the host asked for inside onPress.
ActionPress ==
  /\ mounted = "mounted"
  /\ action
  /\ \E hostHides \in BOOLEAN :
       HostResponds(_hide(Instance, duration), hostHides)
  /\ Len(timers') <= MaxTimers
  /\ called' = [cb |-> "action.onPress", by |-> "press", fn |-> 0]
  /\ UNCHANGED << mounted, duration, action, onDismiss, dismissed, everFinite >>
  /\ UNCHANGED << textInputVars, helperTextVars >>

\* The component is removed; the class defines no componentWillUnmount.
Unmount ==
  /\ mounted = "mounted"
  /\ mounted' = "unmounted"
  /\ called' = NoCall
  /\ timers' = Settled(timers)
  /\ UNCHANGED << visible, duration, action, onDismiss, opacity, yPosition,
                  animation, hideTimeout, dismissed, everFinite >>
  /\ UNCHANGED << textInputVars, helperTextVars >>

Next ==
  \/ componentDidMount
  \/ SetVisible
  \/ SetProps
  \/ AnimationEnd
  \/ Tick
  \/ TimerFire
  \/ BodyPress
  \/ ActionPress
  \/ Unmount

Spec == Init /\ [][Next]_vars

\* The same component when the user never touches it: only the host, the
\* animation frames and the timers act.
NextUntouched ==
  \/ componentDidMount
  \/ SetVisible
  \/ SetProps
  \/ AnimationEnd
  \/ Tick
  \/ TimerFire
  \/ Unmount

SpecUntouched == Init /\ [][NextUntouched]_vars

\* The untouched component under a host that also replaces the onDismiss
\* function between renders.
NextHandlers == NextUntouched \/ SetOnDismiss

SpecHandlers == Init /\ [][NextHandlers]_vars

\* A cooperative host: it shows the snackbar only when it is at rest and
\* hidden, changes no other prop, and answers every onDismiss by setting
\* visible to false. The user does not touch the snackbar.
ShowAgain == ~visible /\ Phase = "Hidden" /\ SetVisible

DismissedByHost == TimerFires(TRUE)

NextCooperative ==
  \/ componentDidMount
  \/ ShowAgain
  \/ AnimationEnd
  \/ Tick
  \/ DismissedByHost

\* The event loop runs a completion callback or a timer callback that is
\* due, and time passes while something is pending.
Fairness ==
  /\ WF_vars(AnimationEnd)
  /\ WF_vars(Tick)
  /\ WF_vars(DismissedByHost)

SpecCooperative == Init /\ [][NextCooperative]_vars /\ Fairness

\* ------------------------------------------------------- step vocabulary
\* The timers a step armed and left pending.
Armed(ts) == SelectSeq(ts, LAMBDA t : t.fresh)

\* The timers that were pending before the step that led to ts and still are.
Survivors(ts) == SelectSeq(ts, LAMBDA t : ~t.fresh)

\* A step that triggers a hide: visible goes from true to false, or the
\* action control is tapped.
HideTriggered ==
  /\ mounted = "mounted"
  /\ (visible /\ ~visible') \/ called'.cb = "action.onPress"

TargetsHidden ==
  opacity.toValue = OPACITY_HIDDEN /\ yPosition.toValue = Y_HIDDEN

\* ------------------------------------------------------------------ claims

\* C1: in every reachable state the number of outstanding auto-dismiss
\* timers is 0 or 1.
C1_AtMostOneTimer == Len(timers) <= 1

\* C2: once the component is unmounted, onDismiss is never invoked again.
C2_NoDismissAfterUnmount ==
  mounted = "unmounted" => called.cb # "onDismiss"

\* C3: a step that triggers a hide leaves none of the timers that were
\* pending before it pending after it.
C3_HideCancelsTimers ==
  [][HideTriggered => Survivors(timers') = << >>]_vars

\* C4: while the component is mounted a timer is pending only in Shown.
C4_TimerOnlyWhileShown ==
  (mounted = "mounted" /\ timers # << >>) => Phase = "Shown"

\* C5: within one show/hide cycle onDismiss is invoked at most once: after
\* an invocation in the cycle no step of the same cycle invokes it again.
C5_DismissOncePerCycle ==
  [][(InCycle /\ dismissed) => called'.cb # "onDismiss"]_vars

\* C6: when the host sets visible to false while the show animation is still
\* running, the step leads straight into the hide animation (both values
\* target their hidden values, neither has reached its visible value) and
\* arms at most one timer, so that pair causes at most one later onDismiss.
C6_HideInterruptsShow ==
  [][(mounted = "mounted" /\ Phase = "Showing" /\ visible /\ ~visible'
        /\ called'.cb = "none")
      => /\ Phase' = "Hiding"
         /\ TargetsHidden'
         /\ opacity'.value = opacity.value
         /\ yPosition'.value = yPosition.value
         /\ Len(Armed(timers')) <= 1]_vars

C6_Witness ==
  /\ mounted = "mounted"
  /\ Phase = "Hiding"
  /\ ~visible
  /\ opacity.value = OPACITY_HIDDEN
  /\ Len(timers) = 1
  /\ timers[1].fresh
  /\ called = NoCall

ConfiguredDelay(d) ==
  CASE d.kind = "short" -> DURATION_SHORT
    [] d.kind = "long" -> DURATION_LONG
    [] d.kind = "number" -> d.ms
    [] OTHER -> 0

\* C8: the timer armed on entering Shown has the delay the duration prop
\* asks for.
C8_DelayFromDuration ==
  [][(Phase = "Showing" /\ Phase' = "Shown")
      => \A i \in 1 .. Len(timers') :
           timers'[i].fresh => timers'[i].left = ConfiguredDelay(duration)]_vars

\* C9: a Snackbar whose duration has always been 'indefinite' has no timer
\* pending and never has onDismiss invoked by a timer, and no step taken
\* while the duration is 'indefinite' arms a timer.
C9_IndefiniteNeverArms ==
  /\ [](~everFinite => timers = << >>)
  /\ [][~everFinite' => called'.by # "timer"]_vars
  /\ [][(duration.kind = "indefinite" /\ duration' = duration)
         => Armed(timers') = << >>]_vars

C9_Witness ==
  /\ mounted = "mounted"
  /\ ~everFinite
  /\ Phase = "Shown"
  /\ visible
  /\ called = [cb |-> "onDismiss", by |-> "press", fn |-> onDismiss]

\* C10: a tap on the action control invokes action.onPress and leaves both
\* values targeting their hidden values and none of the timers that were
\* pending before the tap still pending.
C10_ActionPressHides ==
  [][called'.cb = "action.onPress"
      => (TargetsHidden' /\ Survivors(timers') = << >>)]_vars

\* A step in which the body was tapped.
BodyPressed == called'.cb = "onDismiss" /\ called'.by = "press"

\* C11: in every lifecycle state a tap on the body invokes onDismiss once,
\* within the tap's own step, and unless the host changes visible in answer
\* the step changes neither visible, nor the animation and its targets, nor
\* any pending timer.
C11_BodyPressOnlyAsks ==
  [][BodyPressed
       => /\ called'.fn = onDismiss
          /\ mounted' = mounted
          /\ visible' = visible
               => /\ opacity' = opacity
                  /\ yPosition' = yPosition
                  /\ animation' = animation
                  /\ hideTimeout' = hideTimeout
                  /\ timers' = Settled(timers)]_vars

C11_Witness ==
  /\ mounted = "mounted"
  /\ called.cb = "onDismiss"
  /\ called.by = "press"
  /\ visible
  /\ Phase = "Showing"
  /\ timers # << >>

\* Where the two values are headed and whether they are there.
TargetsVisible ==
  opacity.toValue = OPACITY_VISIBLE /\ yPosition.toValue = Y_VISIBLE

AgreesWithVisible == IF visible THEN TargetsVisible ELSE TargetsHidden

AtTargets ==
  opacity.value = opacity.toValue /\ yPosition.value = yPosition.toValue

C13_Lockstep ==
  /\ [](/\ opacity.toValue = OPACITY_VISIBLE <=> yPosition.toValue = Y_VISIBLE
        /\ opacity.toValue = OPACITY_HIDDEN <=> yPosition.toValue = Y_HIDDEN
        /\ opacity.value = OPACITY_VISIBLE <=> yPosition.value = Y_VISIBLE
        /\ opacity.value = OPACITY_HIDDEN <=> yPosition.value = Y_HIDDEN)
  /\ [][opacity' # opacity <=> yPosition' # yPosition]_vars

C13_Witness ==
  /\ mounted = "mounted"
  /\ Phase = "Showing"
  /\ opacity.value = OPACITY_VISIBLE
  /\ yPosition.value = Y_VISIBLE

\* C14: when a timer fires on a shown snackbar and the host leaves visible
\* true, the snackbar stays Shown with both values at their visible ends,
\* no timer is pending and none is armed (so the component does not call
\* onDismiss again by itself).
C14_IgnoredDismissStaysShown ==
  [][(mounted = "mounted" /\ Phase = "Shown" /\ called'.by = "timer"
        /\ visible /\ visible')
       => /\ Phase' = "Shown"
          /\ opacity'.value = OPACITY_VISIBLE
          /\ yPosition'.value = Y_VISIBLE
          /\ timers' = << >>]_vars

\* C15: a freshly constructed snackbar is Hidden, at opacity 0 and offset 48
\* with no timer. Mounting with visible true starts the show from its
\* beginning and the show's completion leaves the snackbar Shown at 1 and
\* 0; mounting with visible false starts no animation and arms no timer, and
\* the hidden snackbar stays Hidden, arming nothing, while visible is false.
C15_MountFollowsVisible ==
  /\ [](mounted = "constructed"
          => /\ Phase = "Hidden"
             /\ opacity.value = OPACITY_HIDDEN
             /\ yPosition.value = Y_HIDDEN
             /\ hideTimeout = "undefined"
             /\ timers = << >>)
  /\ [][(mounted = "constructed" /\ mounted' = "mounted")
         => IF visible
            THEN Phase' = "Showing" /\ animation'.elapsed = 0
            ELSE Phase' = "Hidden" /\ timers' = << >>]_vars
  /\ [][(Phase = "Showing" /\ animation'.kind = "none")
         => /\ Phase' = "Shown"
            /\ opacity'.value = OPACITY_VISIBLE
            /\ yPosition'.value = Y_VISIBLE]_vars
  /\ [][(mounted = "mounted" /\ Phase = "Hidden" /\ ~visible')
         => Phase' = "Hidden" /\ Armed(timers') = << >>]_vars

C15_Witness ==
  /\ mounted = "mounted"
  /\ visible
  /\ Phase = "Shown"
  /\ opacity.value = OPACITY_VISIBLE
  /\ yPosition.value = Y_VISIBLE
  /\ called = NoCall
  /\ animation = NoAnimation

\* C16: under a cooperative host and with no user input, a snackbar shown
\* with a finite duration is eventually Hidden again, at rest, with visible
\* false and no timer pending, provided due animation and timer callbacks
\* are eventually run.
C16_EventuallyHidden ==
  (mounted = "mounted" /\ visible /\ duration.kind # "indefinite")
    ~> (Phase = "Hidden" /\ ~visible /\ timers = << >>)

C16_Witness ==
  /\ mounted = "mounted"
  /\ duration.kind # "indefinite"
  /\ Phase = "Hidden"
  /\ ~visible
  /\ hideTimeout = "handle"
  /\ timers = << >>
  /\ opacity.value = OPACITY_HIDDEN

\* C17 as stated: after any sequence of operations, action taps included,
\* the values target their visible ends exactly when visible is true.
C17_TargetAgreesWithVisible == mounted = "mounted" => AgreesWithVisible

\* A step in which the action was tapped and visible is true afterwards.
ActionIgnored == called'.cb = "action.onPress" /\ visible'

\* C17 as amended: the values never target their visible ends while visible
\* is false; mounting makes the targets agree with visible, and every step
\* keeps them agreeing except an action tap whose callback leaves visible
\* true: that tap leaves the targets hidden although visible is true, and
\* they stay hidden for as long as visible stays true.
C17_AgreesUnlessActionIgnored ==
  /\ []((mounted = "mounted" /\ TargetsVisible) => visible)
  /\ [][(mounted = "constructed" /\ mounted' = "mounted")
         => AgreesWithVisible']_vars
  /\ [][(mounted = "mounted" /\ mounted' = "mounted" /\ AgreesWithVisible
          /\ ~ActionIgnored)
         => AgreesWithVisible']_vars
  /\ [][ActionIgnored => TargetsHidden']_vars
  /\ [][(mounted = "mounted" /\ visible /\ TargetsHidden /\ visible')
         => TargetsHidden']_vars

C17_Witness ==
  /\ mounted = "mounted"
  /\ called.cb = "action.onPress"
  /\ visible
  /\ TargetsHidden
  /\ Phase = "Hiding"
  /\ opacity.value = OPACITY_VISIBLE

\* C18: the opacity stays within 0 .. 1 and the offset within 0 .. 48; the
\* values change only as the outcome of an animation that a show or a hide
\* started, ending at that animation's targets; at rest in Hidden they are
\* exactly 0 and 48 and at rest in Shown exactly 1 and 0.
C18_ValuesBoundedAndExact ==
  /\ [](/\ opacity.value \in OPACITY_HIDDEN .. OPACITY_VISIBLE
        /\ yPosition.value \in Y_VISIBLE .. Y_HIDDEN
        /\ Phase = "Hidden"
             => opacity.value = OPACITY_HIDDEN /\ yPosition.value = Y_HIDDEN
        /\ Phase = "Shown"
             => opacity.value = OPACITY_VISIBLE /\ yPosition.value = Y_VISIBLE)
  /\ [][(opacity'.value # opacity.value \/ yPosition'.value # yPosition.value)
         => /\ animation.kind # "none"
            /\ animation' = NoAnimation
            /\ opacity'.value = opacity.toValue
            /\ yPosition'.value = yPosition.toValue]_vars

C18_Witness ==
  /\ mounted = "mounted"
  /\ Phase = "Hidden"
  /\ hideTimeout = "handle"
  /\ opacity.value = OPACITY_HIDDEN
  /\ yPosition.value = Y_HIDDEN
  /\ ~visible
  /\ timers = << >>

\* A step in which a prop other than visible changed.
PropsOnly ==
  duration' # duration \/ action' # action \/ onDismiss' # onDismiss

\* C19: a render that leaves visible as it was and changes the duration,
\* the action or onDismiss starts no animation and neither arms nor cancels a timer:
\* values, targets, the running animation, the handle and every pending
\* timer with its remaining delay are as before, so a pending timer keeps
\* the delay it was armed with.
C19_PropsOnlyUpdateIsInert ==
  [][PropsOnly
       => /\ visible' = visible
          /\ opacity' = opacity
          /\ yPosition' = yPosition
          /\ animation' = animation
          /\ hideTimeout' = hideTimeout
          /\ timers' = Settled(timers)]_vars

C19_Witness ==
  /\ mounted = "mounted"
  /\ duration.kind = "indefinite"
  /\ Phase = "Shown"
  /\ Len(timers) = 1
  /\ timers[1].left = DURATION_SHORT - TickMs
  /\ called = NoCall

\* C20: the function a firing timer calls is the onDismiss prop of the
\* moment of firing, the one a body tap would call then, also when the host
\* has replaced onDismiss since the timer was armed.
C20_TimerCallsCurrentOnDismiss ==
  [][called'.by = "timer" => called'.fn = onDismiss]_vars

\* =================================================================
\* The TextInput of src/unnamed/part_002: the floating label, the two
\* Animated values and the delayed placeholder.  Time advances in steps of
\* InputTickMs; a due timing or timer runs before time moves on.
\* =================================================================
FOCUS_DURATION == 150
BLUR_DURATION == 180
PLACEHOLDER_DELAY == 50

\* The clock step is the placeholder delay.  A focus timing ends exactly
\* three steps after its start; a blur timing, which has no callback, is
\* seen to end at the first step at or after its 180 ms.
InputTickMs == PLACEHOLDER_DELAY

\* Most timers the platform holds at once for one TextInput.
MaxInputTimers == 2

\* The texts and the placeholder props that occur; "" is the falsy one.
Texts == {"", "a"}
Placeholders == {"", "hint"}

AnimatedValues == {"focused", "errorShown"}

\* The instance fields the TextInput's methods read and write.
Input ==
  [ values |-> [focused |-> focused, errorShown |-> errorShown],
    timings |-> [focused |-> focusedTiming, errorShown |-> errorTiming],
    placeholder |-> placeholder,
    value |-> value,
    _timer |-> _timer,
    timers |-> inputTimers ]

InputCommit(c) ==
  /\ focused' = c.values.focused
  /\ errorShown' = c.values.errorShown
  /\ focusedTiming' = c.timings.focused
  /\ errorTiming' = c.timings.errorShown
  /\ placeholder' = c.placeholder
  /\ value' = c.value
  /\ _timer' = c._timer
  /\ inputTimers' = c.timers

\* clearTimeout(this._timer): the timer the field names, if still pending.
TextInput_clearTimeout(c) ==
  [c EXCEPT !.timers = SelectSeq(@, NotCurrent)]

\* this._timer = setTimeout(() => this.setState({placeholder: ...}), 50).
TextInput_setTimeout(c) ==
  LET old == [i \in 1 .. Len(c.timers) |-> [c.timers[i] EXCEPT !.current = FALSE]]
  IN [c EXCEPT !.timers = Append(old, [left |-> PLACEHOLDER_DELAY,
                                       current |-> TRUE]),
               !._timer = "handle"]

\* A _setPlaceholder that would not clear the timer it replaces.
TextInput_setPlaceholderKeeping(c) == TextInput_setTimeout(c)

TextInput_setPlaceholder(c) == TextInput_setTimeout(TextInput_clearTimeout(c))

TextInput_removePlaceholder(c) == [c EXCEPT !.placeholder = ""]

\* Animated.timing(v, ...).start(cb) first stops the timing in flight on v,
\* whose own callback then runs with finished = false; only _animateFocus
\* passes a callback, this._setPlaceholder.
TextInput_stopTiming(c, v) ==
  LET stopped == [c EXCEPT !.timings[v] = NoAnimation]
  IN IF c.timings[v].kind = "focus"
     THEN TextInput_setPlaceholder(stopped)
     ELSE stopped

TextInput_animateFocus(c, v) ==
  LET s == TextInput_stopTiming(c, v)
  IN [s EXCEPT !.values[v].toValue = 1,
               !.timings[v] = [kind |-> "focus", elapsed |-> 0]]

TextInput_animateBlur(c, v) ==
  LET s == TextInput_stopTiming(TextInput_removePlaceholder(c), v)
  IN [s EXCEPT !.values[v].toValue = 0,
               !.timings[v] = [kind |-> "blur", elapsed |-> 0]]

\* componentWillReceiveProps(nextProps): only hasError is looked at.
TextInput_componentWillReceiveProps(c, nextHasError) ==
  IF nextHasError # hasError
  THEN IF nextHasError
       THEN TextInput_animateFocus(c, "errorShown")
       ELSE TextInput_animateBlur(c, "errorShown")
  ELSE c

\* componentDidUpdate(prevProps, prevState) on the instance c.
TextInput_componentDidUpdate(c, prevValue, prevPlaceholder, nowPlaceholder) ==
  IF prevValue # c.value \/ prevPlaceholder # nowPlaceholder
  THEN IF c.value # ""
       THEN TextInput_removePlaceholder(c)
       ELSE TextInput_setPlaceholder(c)
  ELSE c

TimingDuration(kind) == IF kind = "focus" THEN FOCUS_DURATION ELSE BLUR_DURATION

TimingDue(t) == t.kind # "none" /\ t.elapsed >= TimingDuration(t.kind)

\* What the native input shows as its placeholder (render).
DisplayedPlaceholder == IF label THEN placeholder ELSE placeholderProp

InputTypeOK ==
  /\ inputMounted \in BOOLEAN
  /\ label \in BOOLEAN
  /\ hasError \in BOOLEAN
  /\ placeholderProp \in Placeholders
  /\ valueProp \in Texts
  /\ isFocused \in BOOLEAN
  /\ focused.value \in {0, 1} /\ focused.toValue \in {0, 1}
  /\ errorShown.value \in {0, 1} /\ errorShown.toValue \in {0, 1}
  /\ placeholder \in Placeholders
  /\ value \in Texts
  /\ focusedTiming.kind \in {"none", "focus", "blur"}
  /\ errorTiming.kind \in {"none", "focus", "blur"}
  /\ _timer \in {"undefined", "handle"}
  /\ Len(inputTimers) <= MaxInputTimers
  /\ \A i \in 1 .. Len(inputTimers) : inputTimers[i].left \in 0 .. PLACEHOLDER_DELAY
  /\ inputEvent \in {"none", "edit", "timer"}

\* The state after construction: state.value is props.value, errorShown
\* starts where props.hasError is, nothing is in flight.
InitTextInput ==
  /\ SnackbarAside
  /\ HelperTextAside
  /\ inputMounted = TRUE
  /\ label \in BOOLEAN
  /\ hasError \in BOOLEAN
  /\ placeholderProp \in Placeholders
  /\ valueProp \in Texts
  /\ isFocused = FALSE
  /\ focused = [value |-> 0, toValue |-> 0]
  /\ errorShown = IF hasError THEN [value |-> 1, toValue |-> 1]
                  ELSE [value |-> 0, toValue |-> 0]
  /\ placeholder = ""
  /\ value = valueProp
  /\ focusedTiming = NoAnimation
  /\ errorTiming = NoAnimation
  /\ _timer = "undefined"
  /\ inputTimers = << >>
  /\ inputEvent = "none"

\* The user gives the input the focus: _handleFocus.
Focus ==
  /\ inputMounted
  /\ ~isFocused
  /\ isFocused' = TRUE
  /\ InputCommit(TextInput_animateFocus(Input, "focused"))
  /\ Len(inputTimers') <= MaxInputTimers
  /\ inputEvent' = "none"
  /\ UNCHANGED << inputMounted, label, hasError, placeholderProp, valueProp >>
  /\ UNCHANGED << snackbarVars, helperTextVars >>

\* The input loses the focus: _handleBlur.
Blur ==
  /\ inputMounted
  /\ isFocused
  /\ isFocused' = FALSE
  /\ InputCommit(TextInput_animateBlur(Input, "focused"))
  /\ Len(inputTimers') <= MaxInputTimers
  /\ inputEvent' = "none"
  /\ UNCHANGED << inputMounted, label, hasError, placeholderProp, valueProp >>
  /\ UNCHANGED << snackbarVars, helperTextVars >>

\* The user edits the text: _handleChangeText sets state.value, the update
\* runs componentDidUpdate, and the host, told through onChangeText, passes
\* the text back as the value prop or does not.
ChangeText ==
  /\ inputMounted
  /\ isFocused
  /\ \E text \in Texts :
       /\ InputCommit(TextInput_componentDidUpdate(
            [Input EXCEPT !.value = text], value, placeholderProp,
            placeholderProp))
       /\ valueProp' \in {valueProp, text}
  /\ Len(inputTimers') <= MaxInputTimers
  /\ inputEvent' = "edit"
  /\ UNCHANGED << inputMounted, label, hasError, placeholderProp, isFocused >>
  /\ UNCHANGED << snackbarVars, helperTextVars >>

\* The host re-renders with another hasError, placeholder or value:
\* componentWillReceiveProps, then componentDidUpdate.
SetInputProps ==
  /\ inputMounted
  /\ \E e \in BOOLEAN, p \in Placeholders, t \in Texts :
       /\ << e, p, t >> # << hasError, placeholderProp, valueProp >>
       /\ hasError' = e
       /\ placeholderProp' = p
       /\ valueProp' = t
  /\ InputCommit(TextInput_componentDidUpdate(
       TextInput_componentWillReceiveProps(Input, hasError'),
       value, placeholderProp, placeholderProp'))
  /\ Len(inputTimers') <= MaxInputTimers
  /\ inputEvent' = "none"
  /\ UNCHANGED << inputMounted, label, isFocused >>
  /\ UNCHANGED << snackbarVars, helperTextVars >>

\* A timing runs to its end, mounted or not: the value reaches its target
\* and a focus timing calls this._setPlaceholder.
InputTimingEnd ==
  /\ \E v \in AnimatedValues :
       /\ TimingDue(Input.timings[v])
       /\ LET c == [Input EXCEPT !.values[v].value = Input.values[v].toValue,
                                 !.timings[v] = NoAnimation]
          IN InputCommit(IF Input.timings[v].kind = "focus"
                         THEN TextInput_setPlaceholder(c)
                         ELSE c)
  /\ Len(inputTimers') <= MaxInputTimers
  /\ inputEvent' = "none"
  /\ UNCHANGED << inputMounted, label, hasError, placeholderProp, valueProp,
                  isFocused >>
  /\ UNCHANGED << snackbarVars, helperTextVars >>

\* A placeholder timer fires: this.setState({placeholder:
\* this.props.placeholder}), which React drops on an unmounted component.
InputTimerFire ==
  /\ \E i \in 1 .. Len(inputTimers) :
       /\ inputTimers[i].left = 0
       /\ inputTimers' = Without(inputTimers, i)
  /\ placeholder' = IF inputMounted THEN placeholderProp ELSE placeholder
  /\ inputEvent' = "timer"
  /\ UNCHANGED << inputMounted, label, hasError, placeholderProp, valueProp,
                  isFocused, focused, errorShown, value, focusedTiming,
                  errorTiming, _timer >>
  /\ UNCHANGED << snackbarVars, helperTextVars >>

Elapse(t) == IF t.kind = "none" THEN t ELSE [t EXCEPT !.elapsed = @ + InputTickMs]

\* InputTickMs pass; nothing that is due is skipped.
InputTick ==
  /\ ~TimingDue(focusedTiming)
  /\ ~TimingDue(errorTiming)
  /\ \A i \in 1 .. Len(inputTimers) : inputTimers[i].left # 0
  /\ focusedTiming.kind # "none" \/ errorTiming.kind # "none"
       \/ inputTimers # << >>
  /\ focusedTiming' = Elapse(focusedTiming)
  /\ errorTiming' = Elapse(errorTiming)
  /\ inputTimers' = [i \in 1 .. Len(inputTimers) |->
                       [inputTimers[i] EXCEPT !.left = @ - InputTickMs]]
  /\ inputEvent' = "none"
  /\ UNCHANGED << inputMounted, label, hasError, placeholderProp, valueProp,
                  isFocused, focused, errorShown, placeholder, value, _timer >>
  /\ UNCHANGED << snackbarVars, helperTextVars >>

\* componentWillUnmount: clearTimeout(this._timer).  The Animated views
\* below unmount after it; the library then either stops the timings in
\* flight, which runs their callbacks with finished = false, or lets them
\* run to their end.
InputUnmount ==
  /\ inputMounted
  /\ inputMounted' = FALSE
  /\ isFocused' = FALSE
  /\ \E stops \in BOOLEAN :
       LET cleared == TextInput_clearTimeout(Input)
       IN InputCommit(IF stops
                      THEN TextInput_stopTiming(
                             TextInput_stopTiming(cleared, "focused"),
                             "errorShown")
                      ELSE cleared)
  /\ Len(inputTimers') <= MaxInputTimers
  /\ inputEvent' = "none"
  /\ UNCHANGED << label, hasError, placeholderProp, valueProp >>
  /\ UNCHANGED << snackbarVars, helperTextVars >>

NextTextInput ==
  \/ Focus
  \/ Blur
  \/ ChangeText
  \/ SetInputProps
  \/ InputTimingEnd
  \/ InputTimerFire
  \/ InputTick
  \/ InputUnmount

SpecTextInput == InitTextInput /\ [][NextTextInput]_vars

\* ------------------------------------------------------ TextInput claims
\* C21: once the TextInput is unmounted no placeholder timer is pending
\* and no placeholder timer runs its setState on it, whatever was in flight
\* at the unmount.
C21_NothingAfterInputUnmount ==
  ~inputMounted => (inputTimers = << >> /\ inputEvent # "timer")

\* C22: a mounted TextInput with a label shows an empty placeholder
\* whenever the input does not have the focus.
C22_NoPlaceholderUnlessFocused ==
  (inputMounted /\ label /\ ~isFocused) => DisplayedPlaceholder = ""

\* C23: at most one placeholder timer of the TextInput is pending at any
\* time, mounted or not: every _setPlaceholder, whether from a value or
\* placeholder change or from a focus or error timing that ended or was
\* stopped, replaces the timer it finds, so a burst of them leaves one
\* placeholder update to come: the placeholder is set only by a timer, and
\* after a timer has run none is left.
C23_OnePlaceholderTimer ==
  /\ [](Len(inputTimers) <= 1)
  /\ [](\A i \in 1 .. Len(inputTimers) : inputTimers[i].current)
  /\ [][inputEvent' = "timer" => inputTimers' = << >>]_vars
  /\ [][(placeholder' # placeholder /\ placeholder' # "")
         => inputEvent' = "timer"]_vars

C23_Witness ==
  /\ inputMounted
  /\ Len(inputTimers) = 1
  /\ inputTimers[1].left = PLACEHOLDER_DELAY
  /\ focusedTiming = NoAnimation
  /\ errorTiming = NoAnimation
  /\ focused.value = 1
  /\ errorShown.value = 1

\* C24: state.value, which decides where the label sits and whether the
\* placeholder is set or removed, equals the text most recently supplied:
\* whenever the value prop changes, by a host render or by the host passing
\* an edit back, state.value is the new prop value afterwards.
C24_ValueFollowsProp ==
  [][valueProp' # valueProp => value' = valueProp']_vars

\* =================================================================
\* The HelperText, in its two files: src/src/components/HelperText.js is
\* driven by props.visible through componentDidUpdate, the older
\* src/unnamed/part_001 by props.hasError through
\* componentWillReceiveProps.  Time advances in steps of HelperTickMs.
\* =================================================================
HELPER_FOCUS_DURATION == 150
HELPER_BLUR_DURATION == 180

\* The clock step divides both durations.
HelperTickMs == 10

Variants == {"visible", "hasError"}

\* The instance fields the HelperText's methods read and write.
Helper == [shown |-> shown, timing |-> shownTiming]

HelperCommit(c) == shown' = c.shown /\ shownTiming' = c.timing

\* new Animated.Value(this.props.visible ? 1 : 0), and the same on hasError.
InitialShown(p) == IF p THEN [value |-> 1, toValue |-> 1]
                   ELSE [value |-> 0, toValue |-> 0]

\* Animated.timing(shown, {toValue: 1, duration: 150}).start(): the timing
\* in flight on the value is replaced; neither file passes a callback.
HelperText_animateFocus(c) ==
  [c EXCEPT !.shown.toValue = 1, !.timing = [kind |-> "focus", elapsed |-> 0]]

\* A blur that would animate towards 1.
HelperText_animateBlurUp(c) ==
  [c EXCEPT !.shown.toValue = 1, !.timing = [kind |-> "blur", elapsed |-> 0]]

HelperText_animateBlur(c) ==
  [c EXCEPT !.shown.toValue = 0, !.timing = [kind |-> "blur", elapsed |-> 0]]

\* componentDidUpdate(prevProps) of the current file.
HelperText_componentDidUpdate(c, prevVisible, v) ==
  IF prevVisible # v
  THEN IF v THEN HelperText_animateFocus(c) ELSE HelperText_animateBlur(c)
  ELSE c

\* componentWillReceiveProps(nextProps) of the older file.
HelperText_componentWillReceiveProps(c, nowHasError, nextHasError) ==
  IF nextHasError # nowHasError
  THEN IF nextHasError
       THEN HelperText_animateFocus(c)
       ELSE HelperText_animateBlur(c)
  ELSE c

HelperTimingDuration(kind) ==
  IF kind = "focus" THEN HELPER_FOCUS_DURATION ELSE HELPER_BLUR_DURATION

HelperTimingDue ==
  /\ shownTiming.kind # "none"
  /\ shownTiming.elapsed >= HelperTimingDuration(shownTiming.kind)

InitHelperText ==
  /\ SnackbarAside
  /\ TextInputAside
  /\ variant \in Variants
  /\ helperProp \in BOOLEAN
  /\ shown = InitialShown(helperProp)
  /\ shownTiming = NoAnimation

\* The host re-renders with the controlling prop changed.
SetHelperProp ==
  /\ helperProp' = ~helperProp
  /\ HelperCommit(IF variant = "visible"
                  THEN HelperText_componentDidUpdate(Helper, helperProp,
                                                     helperProp')
                  ELSE HelperText_componentWillReceiveProps(Helper, helperProp,
                                                            helperProp'))
  /\ UNCHANGED variant
  /\ UNCHANGED << snackbarVars, textInputVars >>

\* The timing runs to its end: the value is at its target.
HelperTimingEnd ==
  /\ HelperTimingDue
  /\ shown' = [shown EXCEPT !.value = shown.toValue]
  /\ shownTiming' = NoAnimation
  /\ UNCHANGED << variant, helperProp >>
  /\ UNCHANGED << snackbarVars, textInputVars >>

\* HelperTickMs pass while a timing is in flight and not yet due.
HelperTick ==
  /\ shownTiming.kind # "none"
  /\ ~HelperTimingDue
  /\ shownTiming' = [shownTiming EXCEPT !.elapsed = @ + HelperTickMs]
  /\ UNCHANGED << variant, helperProp, shown >>
  /\ UNCHANGED << snackbarVars, textInputVars >>

NextHelperText == SetHelperProp \/ HelperTimingEnd \/ HelperTick

SpecHelperText == InitHelperText /\ [][NextHelperText]_vars

Target(p) == IF p THEN 1 ELSE 0

\* C25: in both files the shown value always targets the controlling prop:
\* it starts at 1 when the prop is true and at 0 otherwise, every change of
\* the prop starts a timing from its beginning towards 1 (true) or 0
\* (false), and with no timing in flight the value is 1 exactly when the
\* prop is true.
C25_ShownTargetsProp ==
  /\ [](shown.toValue = Target(helperProp))
  /\ [](shownTiming = NoAnimation => shown.value = Target(helperProp))
  /\ [][helperProp' # helperProp
         => /\ shown'.toValue = Target(helperProp')
            /\ shown'.value = shown.value
            /\ shownTiming'.kind = (IF helperProp' THEN "focus" ELSE "blur")
            /\ shownTiming'.elapsed = 0]_vars

C25_Witness ==
  /\ variant = "hasError"
  /\ helperProp
  /\ shownTiming.kind = "focus"
  /\ shownTiming.elapsed > 0
  /\ shown.value = 1
====
